---- MODULE Spec2Model ----
(***************************************************************************)
(* Model of cs_last2runs_validateoutput.py: the script queries the         *)
(* executions of a scheduled report, fetches their status records, saves   *)
(* the two most recently created ones as spreadsheets and compares them.   *)
(*                                                                         *)
(* Text is modelled as follows.  A created_on string is a sequence of      *)
(* character codes whose first element stands for the 19 characters        *)
(* "YYYY-MM-DDTHH:MM:SS" packed as the number YYYYMMDDHH (minutes and      *)
(* seconds are 00 in every stamp used); the tail (".", the fractional      *)
(* digits, "Z") is kept character by character (46 is ".", 48..57 are the  *)
(* digits, 90 is "Z").  All stamps share the fixed-width prefix, so        *)
(* Python's string order on them is the lexicographic order of these       *)
(* sequences.  File names are TLA+ strings.                                *)
(***************************************************************************)
EXTENDS Integers, Sequences, FiniteSets, TLC

VARIABLES pc, id_list, run_list, sorted_runs, saved_files, fs,
          lookups, downloads, raised_at, output_file

vars == <<pc, id_list, run_list, sorted_runs, saved_files, fs,
          lookups, downloads, raised_at, output_file>>

\* ------------------------------------------------------------- bounds
\* Most executions the report has.
MaxRuns == 3
\* Most executions older than the two selected ones (backlog specification).
MaxOlder == 2
\* Most data rows of a downloaded report.
MaxRows == 2

\* ---------------------------------------------------- program constants
\* sorted(...)[:2]
SelectCount == 2
\* created_on_str[:26]
SliceLen == 26
\* len("YYYY-MM-DDTHH:MM:SS"), the part of the format before ".%fZ"
DateTimeLen == 19
\* %f takes one to six digits
MaxFracDigits == 6
\* the status code both lookups require
HttpOk == 200

\* ------------------------------------------------------------ helpers
Min(a, b) == IF a < b THEN a ELSE b

Reverse(s) == [i \in 1..Len(s) |-> s[Len(s) + 1 - i]]

Take(s, n) == SubSeq(s, 1, Min(n, Len(s)))

Range(s) == {s[i] : i \in 1..Len(s)}

\* Python's "<" on two strings: lexicographic on the character codes.
StrLess(a, b) ==
    LET n == Min(Len(a), Len(b))
        diff == {k \in 1..n : a[k] # b[k]}
    IN  IF diff = {} THEN Len(a) < Len(b)
        ELSE LET k == CHOOSE d \in diff : \A e \in diff : d <= e
             IN  a[k] < b[k]

\* A created_on string: the packed date-time, ndigits fractional digits
\* (none, and no ".", when ndigits = 0), and a trailing "Z" when z.
Stamp(datetime, ndigits, z) ==
    <<datetime>>
    \o (IF ndigits > 0 THEN <<46>> \o [i \in 1..ndigits |-> 48 + i] ELSE <<>>)
    \o (IF z THEN <<90>> ELSE <<>>)

\* -------------------------------------------------- execution records
\* dict.get("created_on") is None when the key is absent.
HasCreatedOn(x) == "created_on" \in DOMAIN x

\* str.upper() on the status values used.
Upper(status) ==
    CASE status = "done" -> "DONE"
      [] status = "Done" -> "DONE"
      [] status = "running" -> "RUNNING"
      [] OTHER -> status

\* Variant: the status test left out.
IsDoneMutAlways(status) == TRUE

\* status.upper() == "DONE"
IsDone(status) == Upper(status) = "DONE"

\* ------------------------------------------------------------ sorting
\* sorted() compares keys with "<"; a None key cannot be compared with
\* anything, so any list of two or more records with an absent created_on
\* raises TypeError.  A list of fewer than two records is never compared.
SortRaises(l) == Len(l) >= 2 /\ \E i \in 1..Len(l) : ~HasCreatedOn(l[i])

RECURSIVE InsertAsc(_, _)
\* Insert x after every element whose key is <= x's key (stable).
InsertAsc(s, x) ==
    IF s = <<>> THEN <<x>>
    ELSE IF StrLess(x.created_on, Head(s).created_on) THEN <<x>> \o s
    ELSE <<Head(s)>> \o InsertAsc(Tail(s), x)

RECURSIVE SortAsc(_)
\* A stable ascending sort by created_on.
SortAsc(l) ==
    IF Len(l) <= 1 THEN l
    ELSE InsertAsc(SortAsc(SubSeq(l, 1, Len(l) - 1)), l[Len(l)])

\* Variant: an ascending sort reversed afterwards (equal keys come out in
\* reverse order).
SortedReverseMutFlip(l) == Reverse(SortAsc(l))

\* sorted(l, key=created_on, reverse=True): CPython reverses the list,
\* sorts it stably ascending, and reverses the result.
SortedReverse(l) == Reverse(SortAsc(Reverse(l)))

\* Variant: the DONE records filtered before the two newest are taken.
SortedRunsMutDoneFirst(l) ==
    Take(SortedReverse(SelectSeq(l, LAMBDA x : IsDone(x.status))), SelectCount)

\* sorted(run_list, key=..., reverse=True)[:2]
SortedRuns(l) == Take(SortedReverse(l), SelectCount)

\* ------------------------------------------------------- date suffix
\* created_on_str[:26] + "Z"
SliceZ(s) == SubSeq(s, 1, Min(Len(s), 1 + SliceLen - DateTimeLen)) \o <<90>>

\* datetime.strptime(s, "%Y-%m-%dT%H:%M:%S.%fZ") succeeds: after the
\* date-time come ".", one to six digits and "Z", and nothing else.
ParseOk(s) ==
    /\ Len(s) >= 4
    /\ s[2] = 46
    /\ s[Len(s)] = 90
    /\ Len(s) - 3 <= MaxFracDigits
    /\ \A i \in 3..(Len(s) - 1) : s[i] \in 48..57

\* strptime raises ValueError for the record's created_on.
StrptimeRaises(x) == HasCreatedOn(x) /\ ~ParseOk(SliceZ(x.created_on))

\* created_on_date.strftime("%Y%m%d"), or "unknown" without created_on.
DateSuffix(x) ==
    IF HasCreatedOn(x) THEN ToString(SliceZ(x.created_on)[1] \div 100)
    ELSE "unknown"

\* f"{exec_id}_{date_suffix}.xlsx"
ExcelFilename(x) == ToString(x.id) \o "_" \o DateSuffix(x) \o ".xlsx"

\* ----------------------------------------------------------- payloads
\* What sdk.get_download returns: None, an error dictionary, or bytes
\* (empty, not UTF-8, or CSV text, held as the table it parses to).
\* A table has the five identity columns when header is TRUE.
NonePayload == [kind |-> "none"]
DictPayload == [kind |-> "dict"]
EmptyBytes == [kind |-> "empty_bytes"]
BadBytes == [kind |-> "bad_bytes"]
CsvBytes(table) == [kind |-> "csv_bytes", table |-> table]

\* Variant: the emptiness test left out.
TruthyMutAlways(p) == TRUE

\* "if report_detail:"
Truthy(p) == p.kind \notin {"none", "empty_bytes"}

\* isinstance(report_detail, bytes)
IsBytes(p) == p.kind \in {"empty_bytes", "bad_bytes", "csv_bytes"}

\* The try block (decode, csv.reader, sheet.append, workbook.save) ends
\* without an exception: b"" decodes to no rows and saves an empty sheet,
\* None and a dictionary have no decode(), bad bytes fail to decode.
Converts(p) == p.kind \in {"csv_bytes", "empty_bytes"}

\* The sheet the try block writes.
SheetOf(p) ==
    IF p.kind = "csv_bytes" THEN p.table ELSE [header |-> FALSE, rows |-> <<>>]

\* ------------------------------------------------ process_executions
\* One pass of the for loop over exec_status, report_detail being what
\* sdk.get_download returns if it is called.  st holds saved_files, the
\* files on disk, the get_download calls made, and whether strptime raised.
LoopBody(st, exec_status, report_detail) ==
    IF StrptimeRaises(exec_status) THEN [st EXCEPT !.raised = TRUE]
    ELSE IF ~IsDone(exec_status.status) THEN st
    ELSE LET called == [st EXCEPT !.downloads =
                            Append(@, [id |-> exec_status.id,
                                       report_detail |-> report_detail])]
             excel_filename == ExcelFilename(exec_status)
         IN  IF Truthy(report_detail) /\ IsBytes(report_detail)
                                      /\ Converts(report_detail)
             THEN [called EXCEPT
                      !.saved_files = Append(@, excel_filename),
                      !.fs = (excel_filename :> SheetOf(report_detail)) @@ @]
             ELSE called

RECURSIVE ForLoop(_, _, _, _)
\* The for loop from its i-th pass on; an exception ends it.
ForLoop(st, runs, resp, i) ==
    IF i > Len(runs) \/ st.raised THEN st
    ELSE ForLoop(LoopBody(st, runs[i], resp[i]), runs, resp, i + 1)

\* ---------------------------------------------------------- comparison
Null == "NaN"

\* The merge key: CVE ID, Image repository, Image tag, Image name,
\* Image registry.
Identity(r) == <<r.cve, r.repo, r.tag, r.name, r.registry>>

\* dropna(subset=['CVE ID'])
DropNa(rows) == SelectSeq(rows, LAMBDA r : r.cve # Null)

RECURSIVE Concat(_)
Concat(ss) == IF ss = <<>> THEN <<>> ELSE Head(ss) \o Concat(Tail(ss))

\* pd.merge(left, right, on=identity columns, how='left', indicator=True):
\* every left row in order, once per right row with the same key
\* ("both"), or once alone ("left_only").
Merge(left, right) ==
    Concat([i \in 1..Len(left) |->
        LET l == left[i]
            hits == SelectSeq(right, LAMBDA r : Identity(r) = Identity(l))
        IN  IF hits = <<>>
            THEN <<[cve |-> l.cve, repo |-> l.repo, tag |-> l.tag,
                    name |-> l.name, registry |-> l.registry,
                    severity_x |-> l.severity, severity_y |-> Null,
                    merge |-> "left_only"]>>
            ELSE [j \in 1..Len(hits) |->
                   [cve |-> l.cve, repo |-> l.repo, tag |-> l.tag,
                    name |-> l.name, registry |-> l.registry,
                    severity_x |-> l.severity, severity_y |-> hits[j].severity,
                    merge |-> "both"]]])

\* unique_values[[the five identity columns]]
FiveColumns(rows) ==
    [i \in 1..Len(rows) |->
        [cve |-> rows[i].cve, repo |-> rows[i].repo, tag |-> rows[i].tag,
         name |-> rows[i].name, registry |-> rows[i].registry]]

\* Variant: the merge taken from file1's side.
CompareMutSwapped(older_data, newer_data) ==
    FiveColumns(SelectSeq(Merge(DropNa(older_data), DropNa(newer_data)),
                          LAMBDA m : m.merge = "left_only"))

\* The rows compare_excel_files writes, older_data being file1's rows and
\* newer_data file2's.
UniqueValues(older_data, newer_data) ==
    FiveColumns(SelectSeq(Merge(DropNa(newer_data), DropNa(older_data)),
                          LAMBDA m : m.merge = "left_only"))

\* f'{current_date}_ImageVulnerabilityAssessment.xlsx'
OutputFileName == "2026_11_02_ImageVulnerabilityAssessment.xlsx"

\* ------------------------------------------------------------- inputs
\* created_on with nine fractional digits and "Z" (2024-01-01 and
\* 2024-01-03), with exactly six and "Z" (2024-01-02), and with three and
\* "Z" ("2024-01-02T11:00:00.123Z").
StampDay1 == Stamp(2024010110, 9, TRUE)
StampDay3 == Stamp(2024010310, 9, TRUE)
StampMicros == Stamp(2024010210, 6, TRUE)
StampMillis == Stamp(2024010211, 3, TRUE)

\* The generator's mark for a record without the created_on key.
Absent == <<>>

AnyCreatedOn == {Absent, StampDay1, StampMillis, StampDay3}
GoodCreatedOn == {StampDay1, StampDay3}
BacklogCreatedOn == {StampDay1, StampMicros, StampDay3}

AnyStatus == {"DONE", "done", "RUNNING"}
TwoStatuses == {"DONE", "RUNNING"}

\* One execution status record of body.resources.
Run(id, status, created_on) ==
    IF created_on = Absent
    THEN [id |-> id, status |-> status, scheduled_report_id |-> "rpt"]
    ELSE [id |-> id, status |-> status, scheduled_report_id |-> "rpt",
          created_on |-> created_on]

\* A row of a report: the five identity columns and one other column.
Row(cve, repo, severity) ==
    [cve |-> cve, repo |-> repo, tag |-> "latest", name |-> "web",
     registry |-> "docker.io", severity |-> severity]

SampleRows ==
    {Row(Null, "app", "Low"), Row("CVE-1", "app", "Low"),
     Row("CVE-1", "app", "High"), Row("CVE-1", "db", "Low")}

\* Reports with the identity columns and at most MaxRows rows.
Tables ==
    {[header |-> TRUE, rows |-> rows] :
        rows \in UNION {[1..n -> SampleRows] : n \in 0..MaxRows}}

\* What get_download may answer in the pipeline specification.
FewPayloads ==
    {NonePayload, DictPayload, EmptyBytes, BadBytes,
     CsvBytes([header |-> TRUE, rows |-> <<Row("CVE-1", "app", "Low")>>])}

\* What get_download may answer in the comparison specification.
ReportPayloads ==
    {NonePayload, CsvBytes([header |-> FALSE, rows |-> <<>>])}
    \cup {CsvBytes(t) : t \in Tables}

\* ------------------------------------------------------------ the program
Init ==
    /\ pc = "retrieve"
    /\ id_list = <<>>
    /\ run_list = <<>>
    /\ sorted_runs = <<>>
    /\ saved_files = <<>>
    /\ fs = <<>>
    /\ lookups = <<>>
    /\ downloads = <<>>
    /\ raised_at = "none"
    /\ output_file = "none"

\* Variant: the status code not checked.
LookupFailedMutNever(status_code) == FALSE

\* "if not lookup["status_code"] == 200: raise SystemExit(...)"
LookupFailed(status_code) == status_code # HttpOk

\* retrieve_report_executions: the query answers with a status code and the
\* identifiers of at most max executions.
RetrieveReportExecutions(max) ==
    /\ pc = "retrieve"
    /\ \E status_code \in {HttpOk, 403}, n \in 0..max :
        /\ lookups' = Append(lookups, [op |-> "reports_executions_query",
                                       status_code |-> status_code])
        /\ IF LookupFailed(status_code)
           THEN pc' = "exit" /\ id_list' = id_list
           ELSE pc' = "get_runs" /\ id_list' = [i \in 1..n |-> i]
    /\ UNCHANGED <<run_list, sorted_runs, saved_files, fs, downloads,
                   raised_at, output_file>>

\* get_report_execution_runs: the batch fetch answers with a status code and
\* one status record per identifier.
GetReportExecutionRuns(statuses, stamps) ==
    /\ pc = "get_runs"
    /\ \E status_code \in {HttpOk, 500},
          st \in [1..Len(id_list) -> statuses],
          cr \in [1..Len(id_list) -> stamps] :
        /\ lookups' = Append(lookups, [op |-> "report_executions_get",
                                       status_code |-> status_code])
        /\ IF LookupFailed(status_code)
           THEN pc' = "exit" /\ run_list' = run_list
           ELSE /\ pc' = "process"
                /\ run_list' = [i \in 1..Len(id_list) |->
                                    Run(id_list[i], st[i], cr[i])]
    /\ UNCHANGED <<id_list, sorted_runs, saved_files, fs, downloads,
                   raised_at, output_file>>

\* process_executions: sort and select, then the for loop; payloads is what
\* get_download may answer.  An exception of sorted() or strptime escapes.
ProcessExecutions(payloads) ==
    /\ pc = "process"
    /\ IF SortRaises(run_list)
       THEN /\ pc' = "raised"
            /\ raised_at' = "sorted"
            /\ UNCHANGED <<sorted_runs, saved_files, fs, downloads>>
       ELSE \E resp \in [1..SelectCount -> payloads] :
            LET runs == SortedRuns(run_list)
                st == ForLoop([saved_files |-> <<>>, fs |-> fs,
                               downloads |-> downloads, raised |-> FALSE],
                              runs, resp, 1)
            IN  /\ sorted_runs' = runs
                /\ saved_files' = st.saved_files
                /\ fs' = st.fs
                /\ downloads' = st.downloads
                /\ pc' = IF st.raised THEN "raised" ELSE "main"
                /\ raised_at' = IF st.raised THEN "strptime" ELSE raised_at
    /\ UNCHANGED <<id_list, run_list, lookups, output_file>>

\* "if len(saved_files) == 2": compare_excel_files(file1, file2).  dropna
\* raises KeyError on a sheet without the CVE ID column.
Compare ==
    /\ pc = "main"
    /\ Len(saved_files) = 2
    /\ LET file1 == saved_files[1]
           file2 == saved_files[2]
           older_data == fs[file1]
           newer_data == fs[file2]
       IN  IF ~older_data.header \/ ~newer_data.header
           THEN /\ pc' = "raised"
                /\ raised_at' = "compare"
                /\ UNCHANGED <<fs, output_file>>
           ELSE /\ pc' = "done"
                /\ output_file' = OutputFileName
                /\ fs' = (OutputFileName :>
                            [header |-> TRUE,
                             rows |-> UniqueValues(older_data.rows,
                                                   newer_data.rows)]) @@ fs
                /\ UNCHANGED raised_at
    /\ UNCHANGED <<id_list, run_list, sorted_runs, saved_files, lookups,
                   downloads>>

\* "else: print("Not enough files saved for comparison.")"
SkipComparison ==
    /\ pc = "main"
    /\ Len(saved_files) # 2
    /\ pc' = "done"
    /\ UNCHANGED <<id_list, run_list, sorted_runs, saved_files, fs, lookups,
                   downloads, raised_at, output_file>>

\* The pipeline on any report of at most MaxRuns executions.
Next ==
    \/ RetrieveReportExecutions(MaxRuns)
    \/ GetReportExecutionRuns(AnyStatus, AnyCreatedOn)
    \/ ProcessExecutions(FewPayloads)
    \/ Compare
    \/ SkipComparison

Spec == Init /\ [][Next]_vars

\* The pipeline on reports of at most two executions with well-formed
\* created_on, downloading reports of at most MaxRows rows.
NextCompare ==
    \/ RetrieveReportExecutions(SelectCount)
    \/ GetReportExecutionRuns(TwoStatuses, GoodCreatedOn)
    \/ ProcessExecutions(ReportPayloads)
    \/ Compare
    \/ SkipComparison

SpecCompare == Init /\ [][NextCompare]_vars

\* The pipeline on reports with up to MaxOlder executions besides the two
\* selected, all with well-formed created_on.
NextBacklog ==
    \/ RetrieveReportExecutions(SelectCount + MaxOlder)
    \/ GetReportExecutionRuns(TwoStatuses, BacklogCreatedOn)
    \/ ProcessExecutions(FewPayloads)
    \/ Compare
    \/ SkipComparison

SpecBacklog == Init /\ [][NextBacklog]_vars

\* ------------------------------------------------------------- claims
\* sorted() has returned: process_executions is past its first statement.
Selected ==
    \/ pc \in {"main", "done"}
    \/ pc = "raised" /\ raised_at \in {"strptime", "compare"}

\* process_executions has returned its list.
Returned == pc \in {"main", "done"} \/ (pc = "raised" /\ raised_at = "compare")

\* The status is "DONE" in some casing.
DoneAnyCase(status) == status \in {"DONE", "done", "Done", "dONE"}

\* The position in run_list of a record (identifiers are unique).
Pos(x) == CHOOSE k \in 1..Len(run_list) : run_list[k].id = x.id

\* Record a ranks before record b: created later, or at the same instant
\* and earlier in run_list.
Before(a, b) ==
    \/ StrLess(b.created_on, a.created_on)
    \/ a.created_on = b.created_on /\ Pos(a) < Pos(b)

\* How many records of run_list rank before x.
AheadOf(x) ==
    Cardinality({k \in 1..Len(run_list) :
                    run_list[k].id # x.id /\ Before(run_list[k], x)})

\* The answer get_download gave for the record, or none.
Answered(x, kind) ==
    \E i \in 1..Len(downloads) :
        downloads[i].id = x.id /\ downloads[i].report_detail.kind = kind

Asked(x) == \E i \in 1..Len(downloads) : downloads[i].id = x.id

Count(seq, x) == Cardinality({i \in 1..Len(seq) : seq[i] = x})

Five(r) ==
    [cve |-> r.cve, repo |-> r.repo, tag |-> r.tag, name |-> r.name,
     registry |-> r.registry]

\* The rows downloaded for a record.
RowsOf(x) ==
    LET i == CHOOSE j \in 1..Len(downloads) : downloads[j].id = x.id
    IN  downloads[i].report_detail.table.rows

\* out holds, as often as they occur in from, the identity columns of the
\* rows of from with a CVE ID whose identity is that of no row of other with
\* a CVE ID, and nothing else.
IsDifference(out, from, other) ==
    /\ \A i \in 1..Len(out) :
          DOMAIN out[i] = {"cve", "repo", "tag", "name", "registry"}
    /\ \A t \in Range(out) \cup {Five(r) : r \in Range(from)} :
          Count(out, t) =
              IF /\ t.cve # Null
                 /\ ~\E a \in Range(other) : a.cve # Null /\ Five(a) = t
              THEN Cardinality({i \in 1..Len(from) : Five(from[i]) = t})
              ELSE 0

C2_FailedLookupIsFatal ==
    /\ \A i, j \in 1..Len(lookups) : lookups[i].op = lookups[j].op => i = j
    /\ \A i \in 1..Len(lookups) :
          lookups[i].status_code # 200 =>
             /\ pc = "exit"
             /\ i = Len(lookups)
             /\ lookups[i].op = "reports_executions_query" => run_list = <<>>
             /\ downloads = <<>>
             /\ saved_files = <<>>
             /\ fs = <<>>
             /\ output_file = "none"

\* C2 witness: the status fetch answered 500 after the query answered 200.
C2_Witness ==
    /\ pc = "exit"
    /\ Len(lookups) = 2
    /\ lookups[1].status_code = 200
    /\ lookups[2].status_code # 200

\* C3: a comparison output exists only when two files were saved, and a run
\* that has ended with fewer than two saved files ended normally, without
\* comparing.
C3_FewerThanTwoEndsNormally ==
    /\ output_file # "none" => Len(saved_files) = 2
    /\ (pc \in {"done", "raised"} /\ Len(saved_files) < 2)
          => (pc = "done" /\ output_file = "none")

\* C4: when the comparison has written its output, file1 is the file of the
\* first selected record A and file2 that of the second, B, with A created
\* no earlier than B, and the output is the identity columns of B's rows
\* with a CVE ID whose identity no row of A with a CVE ID has; two DONE
\* executions with downloadable reports are always compared, the later
\* created one first.
C4_OutputIsSecondMinusFirst ==
    /\ output_file # "none" =>
          /\ Len(sorted_runs) = 2
          /\ ~StrLess(sorted_runs[1].created_on, sorted_runs[2].created_on)
          /\ saved_files = <<ExcelFilename(sorted_runs[1]),
                             ExcelFilename(sorted_runs[2])>>
          /\ IsDifference(fs[output_file].rows,
                          RowsOf(sorted_runs[2]), RowsOf(sorted_runs[1]))
    /\ \A a, b \in 1..Len(run_list) :
          (/\ pc = "done"
           /\ Len(run_list) = 2
           /\ StrLess(run_list[b].created_on, run_list[a].created_on)
           /\ \A k \in 1..2 : /\ DoneAnyCase(run_list[k].status)
                              /\ Answered(run_list[k], "csv_bytes")
                              /\ fs[ExcelFilename(run_list[k])].header)
          => /\ sorted_runs = <<run_list[a], run_list[b]>>
             /\ output_file # "none"

\* C4 witness: the later execution was fetched second, the older one's
\* report has a row without CVE ID, the newer one's a row with one, and the
\* output is not empty.
C4_Witness ==
    /\ pc = "done"
    /\ output_file # "none"
    /\ fs[output_file].rows # <<>>
    /\ Pos(sorted_runs[1]) = 2
    /\ StrLess(sorted_runs[2].created_on, sorted_runs[1].created_on)
    /\ \E r \in Range(RowsOf(sorted_runs[2])) : r.cve = Null
    /\ \E r \in Range(RowsOf(sorted_runs[1])) : r.cve # Null

\* C5: when the comparison has written its output for two executions of
\* which the first selected was created later, the output is the identity
\* columns of the rows of the later created execution's report whose
\* identity no row of the older one's report has.
C5_OutputIsNewerMinusOlder ==
    (/\ output_file # "none"
     /\ Len(sorted_runs) = 2
     /\ StrLess(sorted_runs[2].created_on, sorted_runs[1].created_on))
    => IsDifference(fs[output_file].rows,
                    RowsOf(sorted_runs[1]), RowsOf(sorted_runs[2]))

\* C6: no exception escapes process_executions.
C6_NoExceptionEscapes ==
    (\A i \in 1..Len(lookups) : lookups[i].status_code = 200)
    => ~(pc = "raised" /\ raised_at \in {"sorted", "strptime"})

\* C7: once process_executions has run on two DONE records without
\* created_on whose downloads all gave a report, the saved files are
\* <id>_unknown.xlsx for both.
C7_TwoUnknownFiles ==
    (/\ pc \in {"main", "done", "raised"}
     /\ Len(run_list) = 2
     /\ \A k \in 1..2 : /\ ~HasCreatedOn(run_list[k])
                        /\ DoneAnyCase(run_list[k].status)
     /\ \A i \in 1..Len(downloads) :
           downloads[i].report_detail.kind = "csv_bytes")
    => Range(saved_files) = {"1_unknown.xlsx", "2_unknown.xlsx"}

\* C8: every get_download call is for a selected record whose status is
\* DONE in some casing, at most one call per record, and a selected record
\* that is not DONE does not keep the one after it from being downloaded.
C8_DownloadsOnlyForDone ==
    /\ \A i \in 1..Len(downloads) :
          \E k \in 1..Len(sorted_runs) :
             /\ k <= 2
             /\ sorted_runs[k].id = downloads[i].id
             /\ DoneAnyCase(sorted_runs[k].status)
    /\ \A i, j \in 1..Len(downloads) :
          downloads[i].id = downloads[j].id => i = j
    /\ (/\ Returned
        /\ Len(sorted_runs) = 2
        /\ ~DoneAnyCase(sorted_runs[1].status)
        /\ DoneAnyCase(sorted_runs[2].status))
       => Asked(sorted_runs[2])

\* C8 witness: the first selected record is RUNNING, the second is "done"
\* and is the only one downloaded.
C8_Witness ==
    /\ pc = "done"
    /\ Len(sorted_runs) = 2
    /\ sorted_runs[1].status = "RUNNING"
    /\ sorted_runs[2].status = "done"
    /\ Len(downloads) = 1
    /\ downloads[1].id = sorted_runs[2].id

\* A selected record is DONE and its download gave non-empty bytes that
\* were converted and saved.
Succeeded(x) == DoneAnyCase(x.status) /\ Answered(x, "csv_bytes")

\* C9: the list process_executions returns holds, in selection order, the
\* file names of exactly the selected records that are DONE and whose
\* download gave non-empty, convertible bytes (so at most two), and a failed
\* first record does not keep a DONE second record from being downloaded.
C9_SavedFilesAreSuccesses ==
    Returned =>
        /\ Len(saved_files) <= 2
        /\ saved_files =
             [i \in 1..Len(SelectSeq(sorted_runs, Succeeded)) |->
                 ExcelFilename(SelectSeq(sorted_runs, Succeeded)[i])]
        /\ \A i \in 1..Len(saved_files) : saved_files[i] \in DOMAIN fs
        /\ (/\ Len(sorted_runs) = 2
            /\ ~Succeeded(sorted_runs[1])
            /\ DoneAnyCase(sorted_runs[2].status))
           => Asked(sorted_runs[2])

\* C9 witness: the first selected record's download gave empty bytes and
\* the second record's file is the only one saved.
C9_Witness ==
    /\ pc = "done"
    /\ Len(sorted_runs) = 2
    /\ Answered(sorted_runs[1], "empty_bytes")
    /\ saved_files = <<ExcelFilename(sorted_runs[2])>>

\* C10: a record with two or more records ranking before it is never
\* downloaded or saved, and when one of the two first-ranked records is not
\* DONE or failed to download or convert, fewer than two files are saved
\* and nothing is compared.
C10_SelectionNeverWidened ==
    Selected =>
        /\ \A k \in 1..Len(run_list) :
              AheadOf(run_list[k]) >= 2 =>
                 /\ ~Asked(run_list[k])
                 /\ ExcelFilename(run_list[k]) \notin Range(saved_files)
                 /\ ExcelFilename(run_list[k]) \notin DOMAIN fs
        /\ (\E k \in 1..Len(run_list) :
               AheadOf(run_list[k]) < 2 /\ ~Succeeded(run_list[k]))
           => (Len(saved_files) < 2 /\ output_file = "none")

\* C10 witness: of four or more executions one of the two newest is RUNNING
\* and two older ones are DONE; the run ended with fewer than two files and
\* no comparison.
C10_Witness ==
    /\ pc = "done"
    /\ Len(run_list) >= 4
    /\ \E k \in 1..Len(run_list) :
          AheadOf(run_list[k]) < 2 /\ run_list[k].status = "RUNNING"
    /\ Cardinality({k \in 1..Len(run_list) :
                       AheadOf(run_list[k]) >= 2
                       /\ run_list[k].status = "DONE"}) >= 2
    /\ Len(saved_files) = 1
    /\ output_file = "none"

====
